---- MODULE Spec2Model ----
(***************************************************************************)
(* Model of complex_rest_dtcd_supergraph:                                  *)
(*   - the payload validator (serializers.py ContentSerializer with the    *)
(*     custom fields of fields.py), a pure function of the payload;        *)
(*   - the entity model (models/nodes.py): fragments, vertices, ports,     *)
(*     groups, their relationships and the cascading deletes.              *)
(* SpecValidate runs the validator over bounded payloads, SpecStore runs   *)
(* the entity model operations over a bounded graph store.                 *)
(***************************************************************************)
EXTENDS Integers, Sequences, FiniteSets, TLC

\* ---------------------------------------------------------------- bounds
NumIds == 3
NumSourcePorts == 1
NumTargetPorts == 2
MaxNodes == 3
MaxEdges == 2
MaxGroups == 2
\* The records of one payload, all collections together.
MaxRecords == 4
\* The nodes of each label the store ever holds.
NumFragments == 1
NumVertices == 2
NumPorts == 3
NumGroups == 1

\* A key that is not in a record; dict.get() of it gives None.
Absent == 0

Ids == 1..NumIds
SourcePortNames == 1..NumSourcePorts
TargetPortNames == 1..NumTargetPorts

\* ---------------------------------------------------------------- payloads
SeqsUpTo(S, n) == UNION {[1..k -> S] : k \in 0..n}

\* A vertex or group record: with its id and maybe a parent, or without the id key.
NodeRecords ==
    [primitiveID : Ids, parentID : Ids \cup {Absent}]
    \cup {[primitiveID |-> Absent, parentID |-> Absent]}

EdgeRecords ==
    [sourceNode : Ids, targetNode : Ids,
     sourcePort : SourcePortNames, targetPort : TargetPortNames]

\* An edge record that leaves one key out.
EdgeWithout(k) ==
    [[sourceNode |-> 1, targetNode |-> 1, sourcePort |-> 1, targetPort |-> 1]
        EXCEPT ![k] = Absent]

EdgeInputs ==
    EdgeRecords \cup
    {EdgeWithout(k) : k \in {"sourceNode", "targetNode", "sourcePort", "targetPort"}}

\* has: the collections the payload carries; a collection it does not carry
\* is the empty sequence here and is never read.
PayloadsOf(n, e, g) ==
    [has : {h \in SUBSET {"nodes", "edges", "groups"} :
                /\ n > 0 => "nodes" \in h
                /\ e > 0 => "edges" \in h
                /\ g > 0 => "groups" \in h},
     nodes : [1..n -> NodeRecords],
     edges : [1..e -> EdgeInputs],
     groups : [1..g -> NodeRecords]]

\* ---------------------------------------------------------------- failures
NoError == [kind |-> "none", value |-> Absent, detail |-> {}]
Failure(kind, value) == [kind |-> kind, value |-> value, detail |-> {}]
ChildFailures(detail) == [kind |-> "key_error", value |-> Absent, detail |-> detail]

\* The outcome of a step of validation: the failure raised, or the value returned.
Raised(err) == [err |-> err, ok |-> FALSE]
Returned == [err |-> NoError, ok |-> TRUE]

\* ---------------------------------------------------------------- fields.py
\* The key a record is reported to miss, "" when it misses none.
VertexField(data) ==
    IF data.primitiveID = Absent THEN "primitiveID" ELSE ""

GroupField(data) == VertexField(data)

EdgeField(data) ==
    IF data.sourceNode = Absent THEN "sourceNode"
    ELSE IF data.targetNode = Absent THEN "targetNode"
    ELSE IF data.sourcePort = Absent THEN "sourcePort"
    ELSE IF data.targetPort = Absent THEN "targetPort"
    ELSE ""

\* The failures of the children of a list, by index: run_child_validation.
ChildErrors(keys) == {<<i - 1, keys[i]>> : i \in {j \in DOMAIN keys : keys[j] # ""}}

\* rest_framework ListField.run_validation as the declarations use it: a
\* missing required collection, an empty one when allow_empty is off, then
\* every child (keys: what the child field reports for each element), the
\* failures of all children reported together.
ListField(keys, present, required, allow_empty) ==
    IF ~present
    THEN IF required THEN Raised(Failure("required", Absent)) ELSE Returned
    ELSE IF keys = <<>> /\ ~allow_empty THEN Raised(Failure("empty", Absent))
    ELSE IF ChildErrors(keys) # {} THEN Raised(ChildFailures(ChildErrors(keys)))
    ELSE Returned

\* ---------------------------------------------------------------- serializers.py
\* Mutant: the comparison of the two counts can never fail.
validate_nodes_never_fails(value) ==
    LET ids == {value[i].primitiveID : i \in DOMAIN value}
    IN  IF Cardinality(ids) > Len(value)
        THEN Raised(Failure("not_unique", Absent))
        ELSE Returned

validate_nodes(value) ==
    LET ids == {value[i].primitiveID : i \in DOMAIN value}
    IN  IF Cardinality(ids) # Len(value)
        THEN Raised(Failure("not_unique", Absent))
        ELSE Returned

validate_edges(value) ==
    LET ids == {<<value[i].sourceNode, value[i].targetNode,
                  value[i].sourcePort, value[i].targetPort>> : i \in DOMAIN value}
    IN  IF Cardinality(ids) # Len(value)
        THEN Raised(Failure("not_unique", Absent))
        ELSE Returned

\* The first index a loop stops at, of the indexes that make it fail; 0 when
\* none does.
FirstIndex(hits) ==
    IF hits = {} THEN 0 ELSE CHOOSE i \in hits : \A j \in hits : i <= j

\* Mutant: the loop over the groups reports the last self-reference.
validate_groups_reports_last(value) ==
    LET unique == validate_nodes(value)
        SelfRef(obj) == obj.parentID = obj.primitiveID
        hits == {i \in DOMAIN value : SelfRef(value[i])}
    IN  IF ~unique.ok THEN unique
        ELSE IF hits # {}
        THEN Raised(Failure("self_reference",
                            value[CHOOSE i \in hits : \A j \in hits : j <= i].primitiveID))
        ELSE Returned

validate_groups(value) ==
    LET unique == validate_nodes(value)
        SelfRef(obj) == obj.parentID = obj.primitiveID
        i == FirstIndex({k \in DOMAIN value : SelfRef(value[k])})
    IN  IF ~unique.ok THEN unique
        ELSE IF i # 0 THEN Raised(Failure("self_reference", value[i].primitiveID))
        ELSE Returned

\* chain.from_iterable(map(itemgetter(src_node, tgt_node), edges))
EdgeEnds(edges) ==
    [k \in 1..(2 * Len(edges)) |->
        IF k % 2 = 1 THEN edges[(k + 1) \div 2].sourceNode
        ELSE edges[k \div 2].targetNode]

\* Mutant: only the source node of every edge is looked up.
_validate_references_source_only(data) ==
    LET node_ids == {data.nodes[i].primitiveID : i \in DOMAIN data.nodes}
        ends == [k \in DOMAIN data.edges |-> data.edges[k].sourceNode]
        Missing(id_) == id_ \notin node_ids
        i == FirstIndex({k \in DOMAIN ends : Missing(ends[k])})
    IN  IF i # 0 THEN Raised(Failure("does_not_exist", ends[i])) ELSE Returned

_validate_references(data) ==
    LET node_ids == {data.nodes[i].primitiveID : i \in DOMAIN data.nodes}
        ends == EdgeEnds(data.edges)
        Missing(id_) == id_ \notin node_ids
        i == FirstIndex({k \in DOMAIN ends : Missing(ends[k])})
    IN  IF i # 0 THEN Raised(Failure("does_not_exist", ends[i])) ELSE Returned

\* Mutant: the nodes are walked before the groups.
_validate_parent_groups_exist_nodes_first(data) ==
    LET groups == IF "groups" \in data.has THEN data.groups ELSE <<>>
        group_ids == {groups[i].primitiveID : i \in DOMAIN groups}
        objs == data.nodes \o groups
        Orphan(obj) == obj.parentID # Absent /\ obj.parentID \notin group_ids
        i == FirstIndex({k \in DOMAIN objs : Orphan(objs[k])})
    IN  IF i # 0 THEN Raised(Failure("does_not_exist", objs[i].parentID)) ELSE Returned

_validate_parent_groups_exist(data) ==
    LET groups == IF "groups" \in data.has THEN data.groups ELSE <<>>
        group_ids == {groups[i].primitiveID : i \in DOMAIN groups}
        objs == groups \o data.nodes
        Orphan(obj) == obj.parentID # Absent /\ obj.parentID \notin group_ids
        i == FirstIndex({k \in DOMAIN objs : Orphan(objs[k])})
    IN  IF i # 0 THEN Raised(Failure("does_not_exist", objs[i].parentID)) ELSE Returned

\* Mutant: the parents are checked before the edge references.
validate_parents_first(data) ==
    LET parents == _validate_parent_groups_exist(data)
    IN  IF ~parents.ok THEN parents ELSE _validate_references(data)

validate(data) ==
    LET refs == _validate_references(data)
    IN  IF ~refs.ok THEN refs ELSE _validate_parent_groups_exist(data)

\* One declared field of ContentSerializer: the field's own validation, then
\* its validate_<field> method.
nodes_field(data) ==
    LET f == ListField([i \in DOMAIN data.nodes |-> VertexField(data.nodes[i])],
                       "nodes" \in data.has, TRUE, FALSE)
    IN  IF ~f.ok THEN f ELSE validate_nodes(data.nodes)

edges_field(data) ==
    LET f == ListField([i \in DOMAIN data.edges |-> EdgeField(data.edges[i])],
                       "edges" \in data.has, TRUE, TRUE)
    IN  IF ~f.ok THEN f ELSE validate_edges(data.edges)

\* Mutant: the groups are validated as nodes are, without validate_groups.
groups_field_as_nodes(data) ==
    LET f == ListField([i \in DOMAIN data.groups |-> GroupField(data.groups[i])],
                       "groups" \in data.has, FALSE, TRUE)
    IN  IF ~f.ok \/ "groups" \notin data.has THEN f ELSE validate_nodes(data.groups)

groups_field(data) ==
    LET f == ListField([i \in DOMAIN data.groups |-> GroupField(data.groups[i])],
                       "groups" \in data.has, FALSE, TRUE)
    IN  IF ~f.ok \/ "groups" \notin data.has THEN f ELSE validate_groups(data.groups)

\* ContentSerializer.run_validation: every declared field in declaration
\* order, the failures of all fields collected; validate() only when no field
\* failed.
NoErrors == [nodes |-> NoError, edges |-> NoError, groups |-> NoError,
             non_field_errors |-> NoError]

run_validation(data) ==
    LET errors == [NoErrors EXCEPT !.nodes = nodes_field(data).err,
                                   !.edges = edges_field(data).err,
                                   !.groups = groups_field(data).err]
    IN  IF errors # NoErrors
        THEN [valid |-> FALSE, errors |-> errors, data |-> <<>>]
        ELSE LET v == validate(data)
             IN  IF ~v.ok
                 THEN [valid |-> FALSE,
                       errors |-> [NoErrors EXCEPT !.non_field_errors = v.err],
                       data |-> <<>>]
                 ELSE [valid |-> TRUE, errors |-> NoErrors, data |-> <<data>>]

\* ---------------------------------------------------------------- state
VARIABLES
    payload,    \* the payload submitted to the validator
    pc,         \* where the request is: received, valid, invalid, merged
    result,     \* what run_validation gave
    persisted,  \* the payload ids a merge has written
    db,         \* the graph store: live nodes by label, and relationships
    call,       \* the model operation running or last run
    at,         \* the position inside the running operation
    todo,       \* the query results a running delete still iterates over
    outcome,    \* how the last operation ended
    owned,      \* what the target of a delete owned when the call began
    removed     \* what the delete has removed so far

validator_vars == <<payload, pc, result, persisted>>
store_vars == <<db, call, at, todo, outcome, owned, removed>>
vars == <<payload, pc, result, persisted, db, call, at, todo, outcome, owned, removed>>

\* ---------------------------------------------------------------- entity model
\* The label of a port node: InputPort or OutputPort, both also labelled Port.
Label(p) == IF p % 2 = 1 THEN "InputPort" ELSE "OutputPort"

EmptyDb ==
    [fragments |-> {}, vertices |-> {}, groups |-> {}, ports |-> {},
     frag_vertices |-> {}, frag_groups |-> {}, has_port |-> {}, neighbor |-> {}]

\* The ways ports 1..np are owned by vertices 1..nv: a port has one owner or
\* none.
Ownerships(nv, np) ==
    {{<<owner[p], p>> : p \in {q \in 1..np : owner[q] # 0}} : owner \in [1..np -> 0..nv]}

\* The stores the model starts from: fragments, vertices, groups and ports
\* with any containment and any port ownership, and no edge yet.
Stores ==
    UNION {
        [fragments : {1..nf}, vertices : {1..nv}, groups : {1..ng}, ports : {1..np},
         frag_vertices : SUBSET ((1..nf) \X (1..nv)),
         frag_groups : SUBSET ((1..nf) \X (1..ng)),
         has_port : Ownerships(nv, np),
         neighbor : {{}}] :
        nf \in 0..NumFragments, nv \in 0..NumVertices,
        ng \in 0..NumGroups, np \in 0..NumPorts}


NoCall == [op |-> "none", target |-> 0, cascade |-> FALSE]
NoTodo == [vertices |-> {}, ports |-> {}, groups |-> {}, vertex |-> 0]

\* Mutant: the loop runs over self.input_ports.all().
PortsAll_input_ports(d, v) ==
    {p \in d.ports : <<v, p>> \in d.has_port /\ Label(p) = "InputPort"}

\* self.ports.all(): the nodes labelled Port (every InputPort and OutputPort
\* is one) that a relationship of the vertex reaches.
PortsAll(d, v) == {p \in d.ports : <<v, p>> \in d.has_port}

\* Mutant: clear() has no loop over the groups.
GroupsAll_none(d, f) == {}

\* self.vertices.all() and self.groups.all() of a fragment.
VerticesAll(d, f) == {v \in d.vertices : <<f, v>> \in d.frag_vertices}
GroupsAll(d, f) == {g \in d.groups : <<f, g>> \in d.frag_groups}

\* StructuredNode.delete(): the node goes with every relationship it has.
DeletePort(d, p) ==
    [d EXCEPT !.ports = @ \ {p},
              !.has_port = {r \in @ : r[2] # p},
              !.neighbor = {r \in @ : r[1] # p /\ r[2] # p}]

DeleteVertex(d, v) ==
    [d EXCEPT !.vertices = @ \ {v},
              !.frag_vertices = {r \in @ : r[2] # v},
              !.has_port = {r \in @ : r[1] # v}]

DeleteGroup(d, g) ==
    [d EXCEPT !.groups = @ \ {g},
              !.frag_groups = {r \in @ : r[2] # g}]

DeleteFragment(d, f) ==
    [d EXCEPT !.fragments = @ \ {f},
              !.frag_vertices = {r \in @ : r[1] # f},
              !.frag_groups = {r \in @ : r[1] # f}]

\* len(port.neighbor): the ports an edge relationship joins to the port, in
\* either direction.
Neighbors(d, p) ==
    {q \in d.ports : <<p, q>> \in d.neighbor \/ <<q, p>> \in d.neighbor}

\* ZeroOrOne.connect(): refused when the connecting port has a neighbor;
\* otherwise the relationship is merged, one instance whatever the direction.
CanConnect(d, p) == Neighbors(d, p) = {}

MergeEdge(d, p, q) ==
    IF <<p, q>> \in d.neighbor \/ <<q, p>> \in d.neighbor
    THEN d
    ELSE [d EXCEPT !.neighbor = @ \cup {<<p, q>>}]

\* What a node owns: the ports of a vertex; the vertices and groups of a
\* fragment with the ports of those vertices.
OwnedByVertex(d, v) == {<<"Port", r[2]>> : r \in {x \in d.has_port : x[1] = v}}

OwnedByFragment(d, f) ==
    {<<"Vertex", r[2]>> : r \in {x \in d.frag_vertices : x[1] = f}}
    \cup {<<"Group", r[2]>> : r \in {x \in d.frag_groups : x[1] = f}}
    \cup UNION {OwnedByVertex(d, r[2]) : r \in {x \in d.frag_vertices : x[1] = f}}

Live(d) ==
    {<<"Fragment", f>> : f \in d.fragments} \cup {<<"Vertex", v>> : v \in d.vertices}
    \cup {<<"Group", g>> : g \in d.groups} \cup {<<"Port", p>> : p \in d.ports}

\* ---------------------------------------------------------------- validator steps
NoResult == [valid |-> FALSE, errors |-> NoErrors, data |-> <<>>]

StoreAtRest ==
    /\ db = EmptyDb
    /\ call = NoCall
    /\ at = "idle"
    /\ todo = NoTodo
    /\ outcome = "none"
    /\ owned = {}
    /\ removed = {}

InitValidate ==
    /\ \E n \in 0..MaxNodes, e \in 0..MaxEdges, g \in 0..MaxGroups :
          /\ n + e + g <= MaxRecords
          /\ payload \in PayloadsOf(n, e, g)
    /\ pc = "received"
    /\ result = NoResult
    /\ persisted = {}
    /\ StoreAtRest

\* serializer.is_valid(): the whole validation of one payload.
IsValid ==
    /\ pc = "received"
    /\ result' = run_validation(payload)
    /\ pc' = IF result'.valid THEN "valid" ELSE "invalid"
    /\ UNCHANGED <<payload, persisted>>
    /\ UNCHANGED store_vars

\* The merge of a validated payload into the store.
Merge ==
    /\ pc = "valid"
    /\ persisted' = {result.data[1].nodes[i].primitiveID : i \in DOMAIN result.data[1].nodes}
    /\ pc' = "merged"
    /\ UNCHANGED <<payload, result>>
    /\ UNCHANGED store_vars

NextValidate == IsValid \/ Merge

SpecValidate == InitValidate /\ [][NextValidate]_vars

\* ---------------------------------------------------------------- entity model steps
InitStore ==
    /\ payload = [has |-> {}, nodes |-> <<>>, edges |-> <<>>, groups |-> <<>>]
    /\ pc = "received"
    /\ result = NoResult
    /\ persisted = {}
    /\ db \in Stores
    /\ call = NoCall
    /\ at = "idle"
    /\ todo = NoTodo
    /\ outcome = "none"
    /\ owned = {}
    /\ removed = {}

\* An operation that is one write: it begins and ends in this step.
Ran(op) ==
    /\ at = "idle"
    /\ call' = [op |-> op, target |-> 0, cascade |-> FALSE]
    /\ outcome' = "done"
    /\ owned' = {}
    /\ removed' = {}
    /\ UNCHANGED <<at, todo>>

\* p.neighbor.connect(q)
Connect ==
    /\ \E p \in db.ports : \E q \in db.ports \ {p} :
        /\ CanConnect(db, p)
        /\ db' = MergeEdge(db, p, q)
        /\ Ran("Port.neighbor.connect")
    /\ UNCHANGED validator_vars

\* Mutant: Fragment.delete calls clear() whatever cascade is.
FragmentDelete_always_clears ==
    /\ at = "idle"
    /\ \E f \in db.fragments, cascade \in BOOLEAN :
        /\ call' = [op |-> "Fragment.delete", target |-> f, cascade |-> cascade]
        /\ owned' = OwnedByFragment(db, f)
        /\ at' = "clear_vertices"
        /\ todo' = [NoTodo EXCEPT !.vertices = VerticesAll(db, f)]
    /\ outcome' = "running"
    /\ removed' = {}
    /\ UNCHANGED db
    /\ UNCHANGED validator_vars

\* Fragment.delete(cascade) is called: with cascade, clear() begins with the
\* query self.vertices.all().
FragmentDelete ==
    /\ at = "idle"
    /\ \E f \in db.fragments, cascade \in BOOLEAN :
        /\ call' = [op |-> "Fragment.delete", target |-> f, cascade |-> cascade]
        /\ owned' = OwnedByFragment(db, f)
        /\ IF cascade
           THEN /\ at' = "clear_vertices"
                /\ todo' = [NoTodo EXCEPT !.vertices = VerticesAll(db, f)]
           ELSE /\ at' = "fragment_node"
                /\ todo' = NoTodo
    /\ outcome' = "running"
    /\ removed' = {}
    /\ UNCHANGED db
    /\ UNCHANGED validator_vars

\* Vertex.delete(cascade) is called: with cascade, the loop begins with the
\* query self.ports.all().
VertexDelete ==
    /\ at = "idle"
    /\ \E v \in db.vertices, cascade \in BOOLEAN :
        /\ call' = [op |-> "Vertex.delete", target |-> v, cascade |-> cascade]
        /\ owned' = OwnedByVertex(db, v)
        /\ todo' = [NoTodo EXCEPT !.vertex = v,
                                  !.ports = IF cascade THEN PortsAll(db, v) ELSE {}]
    /\ at' = "vertex_ports"
    /\ outcome' = "running"
    /\ removed' = {}
    /\ UNCHANGED db
    /\ UNCHANGED validator_vars

\* clear(): the next vertex of the loop, vertex.delete(cascade=True).
ClearVertex ==
    /\ at = "clear_vertices"
    /\ \E v \in todo.vertices :
        todo' = [todo EXCEPT !.vertices = @ \ {v}, !.vertex = v, !.ports = PortsAll(db, v)]
    /\ at' = "vertex_ports"
    /\ UNCHANGED <<db, call, outcome, owned, removed>>
    /\ UNCHANGED validator_vars

\* Vertex.delete: port.delete() for the next port of the loop.
PortDelete ==
    /\ at = "vertex_ports"
    /\ \E p \in todo.ports :
        /\ db' = DeletePort(db, p)
        /\ todo' = [todo EXCEPT !.ports = @ \ {p}]
        /\ removed' = removed \cup {<<"Port", p>>}
    /\ UNCHANGED <<call, at, outcome, owned>>
    /\ UNCHANGED validator_vars

\* Vertex.delete: super().delete(), after the loop over the ports.
VertexNodeDelete ==
    /\ at = "vertex_ports"
    /\ todo.ports = {}
    /\ db' = DeleteVertex(db, todo.vertex)
    /\ removed' = removed \cup {<<"Vertex", todo.vertex>>}
    /\ todo' = [todo EXCEPT !.vertex = 0]
    /\ IF call.op = "Fragment.delete"
       THEN at' = "clear_vertices" /\ outcome' = outcome
       ELSE at' = "idle" /\ outcome' = "done"
    /\ UNCHANGED <<call, owned>>
    /\ UNCHANGED validator_vars

\* clear(): after the loop over the vertices, the query self.groups.all().
ClearGroups ==
    /\ at = "clear_vertices"
    /\ todo.vertices = {}
    /\ todo' = [todo EXCEPT !.groups = GroupsAll(db, call.target)]
    /\ at' = "clear_groups"
    /\ UNCHANGED <<db, call, outcome, owned, removed>>
    /\ UNCHANGED validator_vars

\* clear(): group.delete() for the next group of the loop.
GroupDelete ==
    /\ at = "clear_groups"
    /\ \E g \in todo.groups :
        /\ db' = DeleteGroup(db, g)
        /\ todo' = [todo EXCEPT !.groups = @ \ {g}]
        /\ removed' = removed \cup {<<"Group", g>>}
    /\ UNCHANGED <<call, at, outcome, owned>>
    /\ UNCHANGED validator_vars

\* Fragment.delete: super().delete(), after clear() or without it.
FragmentNodeDelete ==
    /\ \/ at = "clear_groups" /\ todo.groups = {}
       \/ at = "fragment_node"
    /\ db' = DeleteFragment(db, call.target)
    /\ removed' = removed \cup {<<"Fragment", call.target>>}
    /\ at' = "idle"
    /\ outcome' = "done"
    /\ UNCHANGED <<call, todo, owned>>
    /\ UNCHANGED validator_vars

\* A query of the running delete raises (the store is unreachable, the
\* connection drops): the exception leaves delete(), which catches nothing
\* and opens no transaction, so what the earlier queries wrote stays.
QueryFails ==
    /\ at # "idle"
    /\ at' = "idle"
    /\ outcome' = "failed"
    /\ todo' = NoTodo
    /\ UNCHANGED <<db, call, owned, removed>>
    /\ UNCHANGED validator_vars

NextStore ==
    \/ Connect
    \/ FragmentDelete \/ VertexDelete
    \/ ClearVertex \/ PortDelete \/ VertexNodeDelete
    \/ ClearGroups \/ GroupDelete \/ FragmentNodeDelete
    \/ QueryFails

SpecStore == InitStore /\ [][NextStore]_vars

\* ---------------------------------------------------------------- payload properties
\* Stated on the submitted payload alone, without the validator.
NodeIdAt(p, i) == p.nodes[i].primitiveID
GroupIdAt(p, i) == p.groups[i].primitiveID
EdgeTupleAt(p, i) ==
    <<p.edges[i].sourceNode, p.edges[i].targetNode,
      p.edges[i].sourcePort, p.edges[i].targetPort>>

SubmittedNodeIds(p) == {NodeIdAt(p, i) : i \in DOMAIN p.nodes} \ {Absent}
SubmittedGroupIds(p) == {GroupIdAt(p, i) : i \in DOMAIN p.groups} \ {Absent}

NodeIdsDistinct(p) ==
    \A i, j \in DOMAIN p.nodes : i # j => NodeIdAt(p, i) # NodeIdAt(p, j)
EdgeTuplesDistinct(p) ==
    \A i, j \in DOMAIN p.edges : i # j => EdgeTupleAt(p, i) # EdgeTupleAt(p, j)
GroupIdsDistinct(p) ==
    \A i, j \in DOMAIN p.groups : i # j => GroupIdAt(p, i) # GroupIdAt(p, j)
GroupSelfRefAt(p, i) ==
    p.groups[i].parentID # Absent /\ p.groups[i].parentID = GroupIdAt(p, i)
NoGroupSelfRef(p) == \A i \in DOMAIN p.groups : ~GroupSelfRefAt(p, i)
\* The node ids that edges name and no node record has.
DanglingEnds(p) ==
    {id \in UNION {{p.edges[i].sourceNode, p.edges[i].targetNode} : i \in DOMAIN p.edges} :
        id # Absent /\ id \notin SubmittedNodeIds(p)}
\* The parent ids that node and group records name and no group record has.
DanglingParents(p) ==
    {id \in {p.nodes[i].parentID : i \in DOMAIN p.nodes}
            \cup {p.groups[i].parentID : i \in DOMAIN p.groups} :
        id # Absent /\ id \notin SubmittedGroupIds(p)}

\* Every record has its keys, and the required collections are there.
NodesWellFormed(p) ==
    "nodes" \in p.has /\ p.nodes # <<>> /\ \A i \in DOMAIN p.nodes : NodeIdAt(p, i) # Absent
EdgesWellFormed(p) ==
    "edges" \in p.has /\ \A i \in DOMAIN p.edges : Absent \notin
        {p.edges[i].sourceNode, p.edges[i].targetNode, p.edges[i].sourcePort, p.edges[i].targetPort}
GroupsWellFormed(p) == \A i \in DOMAIN p.groups : GroupIdAt(p, i) # Absent
WellFormed(p) == NodesWellFormed(p) /\ EdgesWellFormed(p) /\ GroupsWellFormed(p)

\* Every collection passes the checks made on it alone.
CollectionsClean(p) ==
    /\ WellFormed(p)
    /\ NodeIdsDistinct(p) /\ EdgeTuplesDistinct(p)
    /\ GroupIdsDistinct(p) /\ NoGroupSelfRef(p)

Validated == pc # "received"
ErrorFields == {"nodes", "edges", "groups", "non_field_errors"}
Reported == {f \in ErrorFields : result.errors[f] # NoError}

\* ---------------------------------------------------------------- C1
\* C1: every payload the validation accepts has pairwise distinct node ids,
\* pairwise distinct edge 4-tuples, pairwise distinct group ids, no group that
\* is its own parent, only edges between submitted nodes, and only parents
\* that are submitted groups.
Inv_C1_AcceptedPayloadInvariants ==
    (Validated /\ result.valid) =>
        /\ NodeIdsDistinct(payload)
        /\ EdgeTuplesDistinct(payload)
        /\ GroupIdsDistinct(payload)
        /\ NoGroupSelfRef(payload)
        /\ DanglingEnds(payload) = {}
        /\ DanglingParents(payload) = {}

Wit_C1_AcceptedWithEdgeAndParent ==
    /\ Validated /\ result.valid
    /\ Len(payload.nodes) = 2 /\ Len(payload.edges) = 1 /\ Len(payload.groups) = 1
    /\ payload.nodes[1].parentID # Absent
    /\ payload.edges[1].sourceNode # payload.edges[1].targetNode

\* ---------------------------------------------------------------- C4
\* The check categories of the payload validator, in their listed order.
EarliestCategory(p) ==
    IF ~NodeIdsDistinct(p) THEN 1
    ELSE IF ~EdgeTuplesDistinct(p) THEN 2
    ELSE IF ~GroupIdsDistinct(p) THEN 3
    ELSE IF ~NoGroupSelfRef(p) THEN 4
    ELSE IF DanglingEnds(p) # {} THEN 5
    ELSE IF DanglingParents(p) # {} THEN 6
    ELSE 0

DoesNotExistAmong(err, ids) == err.kind = "does_not_exist" /\ err.value \in ids

FailureOfCategory(c, p, errors) ==
    CASE c = 1 -> errors.nodes.kind = "not_unique"
      [] c = 2 -> errors.edges.kind = "not_unique"
      [] c = 3 -> errors.groups.kind = "not_unique"
      [] c = 4 -> errors.groups.kind = "self_reference"
      [] c = 5 -> DoesNotExistAmong(errors.non_field_errors, DanglingEnds(p))
      [] c = 6 -> DoesNotExistAmong(errors.non_field_errors, DanglingParents(p))

\* C4 as first stated: on a payload with all its keys, the call returns the
\* payload unchanged or reports exactly one failure, that of the earliest
\* violated category.
Orig_C4_ExactlyOneEarliestFailure ==
    (Validated /\ WellFormed(payload)) =>
        IF EarliestCategory(payload) = 0
        THEN result.valid /\ result.data = <<payload>>
        ELSE /\ ~result.valid
             /\ Cardinality(Reported) = 1
             /\ FailureOfCategory(EarliestCategory(payload), payload, result.errors)

\* What each collection is expected to report, by the checks made on it alone.
ExpectedNodes(p) ==
    IF "nodes" \notin p.has THEN "required"
    ELSE IF p.nodes = <<>> THEN "empty"
    ELSE IF \E i \in DOMAIN p.nodes : NodeIdAt(p, i) = Absent THEN "key_error"
    ELSE IF ~NodeIdsDistinct(p) THEN "not_unique"
    ELSE "none"

ExpectedEdges(p) ==
    IF "edges" \notin p.has THEN "required"
    ELSE IF ~EdgesWellFormed(p) THEN "key_error"
    ELSE IF ~EdgeTuplesDistinct(p) THEN "not_unique"
    ELSE "none"

ExpectedGroups(p) ==
    IF ~GroupsWellFormed(p) THEN "key_error"
    ELSE IF ~GroupIdsDistinct(p) THEN "not_unique"
    ELSE IF ~NoGroupSelfRef(p) THEN "self_reference"
    ELSE "none"

\* C4 (amended): a validator call returns the payload unchanged or fails; a
\* failure reports every failing collection (nodes, edges, groups) together,
\* each with its own earliest failure (structure, then uniqueness, then
\* self-reference); the reference checks run only when no collection failed,
\* and then exactly one failure is reported, an edge reference before a parent
\* reference.
Thm_C4_FailuresPerCollectionThenReferences ==
    Validated =>
        /\ result.valid => (result.data = <<payload>> /\ Reported = {})
        /\ ~result.valid => (result.data = <<>> /\ Reported # {})
        /\ result.errors.nodes.kind = ExpectedNodes(payload)
        /\ result.errors.edges.kind = ExpectedEdges(payload)
        /\ result.errors.groups.kind = ExpectedGroups(payload)
        /\ IF CollectionsClean(payload)
           THEN IF DanglingEnds(payload) # {}
                THEN DoesNotExistAmong(result.errors.non_field_errors, DanglingEnds(payload))
                ELSE IF DanglingParents(payload) # {}
                THEN DoesNotExistAmong(result.errors.non_field_errors, DanglingParents(payload))
                ELSE result.valid
           ELSE result.errors.non_field_errors = NoError

Wit_C4_TwoCollectionsFail ==
    /\ Validated /\ WellFormed(payload)
    /\ result.errors.nodes.kind = "not_unique"
    /\ result.errors.groups.kind = "self_reference"
    /\ DanglingEnds(payload) # {}

\* ---------------------------------------------------------------- C6
NodeIdRepeats(p) ==
    \E i, j \in DOMAIN p.nodes :
        i # j /\ NodeIdAt(p, i) # Absent /\ NodeIdAt(p, i) = NodeIdAt(p, j)

\* C6 as first stated: whenever a node id repeats, validation fails with
\* NotUnique and nothing is persisted.
Orig_C6_RepeatedNodeIdNotUnique ==
    (Validated /\ NodeIdRepeats(payload)) =>
        /\ ~result.valid
        /\ result.errors.nodes.kind = "not_unique"
        /\ persisted = {}

\* C6 (amended): when every node record carries the id key and a node id
\* repeats, validation fails, reports NotUnique for the nodes, and nothing of
\* the payload is persisted.
Thm_C6_RepeatedNodeIdNotUnique ==
    (/\ Validated
     /\ \A i \in DOMAIN payload.nodes : NodeIdAt(payload, i) # Absent
     /\ NodeIdRepeats(payload)) =>
        /\ ~result.valid
        /\ result.errors.nodes = Failure("not_unique", Absent)
        /\ persisted = {}

Wit_C6_RepeatedNodeIdRejected ==
    /\ pc = "invalid"
    /\ Len(payload.nodes) = 3
    /\ \A i \in DOMAIN payload.nodes : NodeIdAt(payload, i) # Absent
    /\ NodeIdAt(payload, 1) = NodeIdAt(payload, 3)
    /\ NodeIdAt(payload, 1) # NodeIdAt(payload, 2)
    /\ result.errors.nodes.kind = "not_unique"

\* ---------------------------------------------------------------- C7
\* C7 as first stated, on group records that all carry the id key: every
\* group that is its own parent makes validation fail with SelfReference of
\* that group's id.
Orig_C7_SelfReferenceOfEveryGroup ==
    (Validated /\ GroupsWellFormed(payload)) =>
        \A i \in DOMAIN payload.groups :
            GroupSelfRefAt(payload, i) =>
                /\ ~result.valid
                /\ result.errors.groups = Failure("self_reference", GroupIdAt(payload, i))

\* C7 (amended): when every group record carries the id key and the group ids
\* are pairwise distinct, the first group in submitted order that is its own
\* parent makes validation fail with SelfReference of that group's id.
Thm_C7_SelfReferenceOfFirstGroup ==
    (Validated /\ GroupsWellFormed(payload) /\ GroupIdsDistinct(payload)) =>
        \A i \in DOMAIN payload.groups :
            (/\ GroupSelfRefAt(payload, i)
             /\ \A j \in 1..(i - 1) : ~GroupSelfRefAt(payload, j)) =>
                /\ ~result.valid
                /\ result.errors.groups = Failure("self_reference", GroupIdAt(payload, i))

Wit_C7_TwoSelfReferences ==
    /\ pc = "invalid"
    /\ Len(payload.groups) = 2
    /\ GroupSelfRefAt(payload, 1) /\ GroupSelfRefAt(payload, 2)
    /\ GroupIdAt(payload, 1) # GroupIdAt(payload, 2)
    /\ result.errors.groups = Failure("self_reference", GroupIdAt(payload, 1))

\* ---------------------------------------------------------------- C8
\* C8 as first stated, on payloads that have all their keys: every node id
\* an edge names and no node has makes validation fail with DoesNotExist of
\* that id.
Orig_C8_DoesNotExistOfEveryEnd ==
    (Validated /\ WellFormed(payload)) =>
        \A id \in DanglingEnds(payload) :
            /\ ~result.valid
            /\ result.errors.non_field_errors = Failure("does_not_exist", id)

EndDanglesAt(p, i, k) == p.edges[i][k] \in DanglingEnds(p)
EdgeDanglesAt(p, i) == EndDanglesAt(p, i, "sourceNode") \/ EndDanglesAt(p, i, "targetNode")

\* C8 (amended): when every collection passes its own checks, the first edge
\* end in submitted order (the source before the target of an edge) that names
\* no submitted node makes validation fail with DoesNotExist of that id.
Thm_C8_DoesNotExistOfFirstEnd ==
    (Validated /\ CollectionsClean(payload)) =>
        \A i \in DOMAIN payload.edges :
            (EdgeDanglesAt(payload, i) /\ \A j \in 1..(i - 1) : ~EdgeDanglesAt(payload, j)) =>
                /\ ~result.valid
                /\ result.errors.non_field_errors =
                     Failure("does_not_exist",
                             IF EndDanglesAt(payload, i, "sourceNode")
                             THEN payload.edges[i].sourceNode
                             ELSE payload.edges[i].targetNode)

Wit_C8_TwoDanglingEnds ==
    /\ pc = "invalid" /\ CollectionsClean(payload)
    /\ Len(payload.edges) = 1
    /\ EndDanglesAt(payload, 1, "sourceNode") /\ EndDanglesAt(payload, 1, "targetNode")
    /\ payload.edges[1].sourceNode # payload.edges[1].targetNode
    /\ result.errors.non_field_errors = Failure("does_not_exist", payload.edges[1].sourceNode)

\* ---------------------------------------------------------------- C9
\* C9 as first stated, on payloads that have all their keys: every parent id
\* a node or group names and no group has makes validation fail with
\* DoesNotExist of that parent id.
Orig_C9_DoesNotExistOfEveryParent ==
    (Validated /\ WellFormed(payload)) =>
        \A id \in DanglingParents(payload) :
            /\ ~result.valid
            /\ result.errors.non_field_errors = Failure("does_not_exist", id)

ParentDangles(p, obj) == obj.parentID \in DanglingParents(p)

\* C9 (amended): when every collection passes its own checks and every edge
\* end names a submitted node, the first record (the groups in submitted
\* order, then the nodes) whose parent_id names no submitted group makes
\* validation fail with DoesNotExist of that parent id; with no groups
\* collection, any declared parent_id does.
Thm_C9_DoesNotExistOfFirstParent ==
    (Validated /\ CollectionsClean(payload) /\ DanglingEnds(payload) = {}) =>
        LET objs == payload.groups \o payload.nodes
        IN  \A i \in DOMAIN objs :
                (/\ ParentDangles(payload, objs[i])
                 /\ \A j \in 1..(i - 1) : ~ParentDangles(payload, objs[j])) =>
                    /\ ~result.valid
                    /\ result.errors.non_field_errors =
                         Failure("does_not_exist", objs[i].parentID)

Wit_C9_GroupAndNodeParentsDangle ==
    /\ pc = "invalid" /\ CollectionsClean(payload) /\ DanglingEnds(payload) = {}
    /\ Len(payload.groups) = 1 /\ Len(payload.nodes) = 1
    /\ ParentDangles(payload, payload.groups[1]) /\ ParentDangles(payload, payload.nodes[1])
    /\ payload.groups[1].parentID # payload.nodes[1].parentID
    /\ result.errors.non_field_errors = Failure("does_not_exist", payload.groups[1].parentID)

\* ---------------------------------------------------------------- C2
CascadeDone(op) ==
    at = "idle" /\ outcome = "done" /\ call.op = op /\ call.cascade

\* C2: when a cascading Fragment.delete has run, no vertex, group or port the
\* fragment contained when the call began is left in the store, nor any
\* relationship to one; when a cascading Vertex.delete has run, no port the
\* vertex owned is left, input or output.
Thm_C2_CascadeLeavesNothingOwned ==
    (CascadeDone("Fragment.delete") \/ CascadeDone("Vertex.delete")) =>
        /\ owned \cap Live(db) = {}
        /\ \A r \in db.has_port : <<"Vertex", r[1]>> \notin owned /\ <<"Port", r[2]>> \notin owned
        /\ \A r \in db.neighbor : <<"Port", r[1]>> \notin owned /\ <<"Port", r[2]>> \notin owned

Wit_C2_FragmentWithBothPortLabelsGone ==
    /\ CascadeDone("Fragment.delete")
    /\ {<<"Vertex", 1>>, <<"Vertex", 2>>, <<"Group", 1>>} \subseteq owned
    /\ \E p, q \in 1..NumPorts :
        /\ {<<"Port", p>>, <<"Port", q>>} \subseteq owned
        /\ Label(p) = "InputPort" /\ Label(q) = "OutputPort"

\* ---------------------------------------------------------------- C3
\* C3: a cascading delete that fails part-way leaves nothing removed: no state
\* with some descendants deleted and the delete failed is left at rest.
Orig_C3_FailedCascadeRemovesNothing ==
    (at = "idle" /\ outcome = "failed" /\ call.cascade) => removed = {}

\* ---------------------------------------------------------------- C5
RelationshipsOf(d, p) == {r \in d.neighbor : r[1] = p \/ r[2] = p}

\* C5: in every reachable state a port is an endpoint of at most one neighbor
\* relationship, whichever end connected it.
Orig_C5_AtMostOneNeighbor ==
    \A p \in db.ports : Cardinality(RelationshipsOf(db, p)) <= 1

\* ---------------------------------------------------------------- C10
PortsStillOwned(d, v) == {r \in d.has_port : r[1] = v}
StillContained(d, f) ==
    {r \in d.frag_vertices : r[1] = f} \cup {r \in d.frag_groups : r[1] = f}

LeavesFirst ==
    /\ \A v \in db.vertices \ db'.vertices :
        call.cascade => PortsStillOwned(db, v) = {}
    /\ \A f \in db.fragments \ db'.fragments :
        call.cascade =>
            /\ StillContained(db, f) = {}
            /\ owned \subseteq removed

\* C10: in a cascading delete, the step that removes a vertex finds none of
\* its ports left, and the step that removes the fragment finds none of its
\* vertices and groups left: an owner never goes before what it owns.
Thm_C10_LeavesFirst == [][LeavesFirst]_vars

Wit_C10_FragmentRemovedLast ==
    /\ CascadeDone("Fragment.delete")
    /\ <<"Fragment", call.target>> \in removed
    /\ Cardinality({e \in removed : e[1] = "Port"}) >= 2
    /\ Cardinality({e \in removed : e[1] = "Vertex"}) >= 1
    /\ Cardinality({e \in removed : e[1] = "Group"}) >= 1

\* ---------------------------------------------------------------- C11
PlainDelete(c) == c.op \in {"Fragment.delete", "Vertex.delete"} /\ ~c.cascade

TargetOf(c) == <<IF c.op = "Fragment.delete" THEN "Fragment" ELSE "Vertex", c.target>>

OnlyTargetGoes ==
    PlainDelete(call') =>
        /\ Live(db) \ Live(db') \subseteq {TargetOf(call')}
        /\ db'.ports = db.ports /\ db'.groups = db.groups
        /\ db'.neighbor = db.neighbor
        /\ call'.op = "Fragment.delete" =>
              db'.vertices = db.vertices /\ db'.has_port = db.has_port
        /\ (at' = "idle" /\ outcome' = "done") =>
              /\ TargetOf(call') \notin Live(db')
              /\ removed' = {TargetOf(call')}
              /\ owned' \subseteq Live(db')

\* C11: no step of a delete called with cascade = false removes a node other
\* than the target, and when the call has run the target is gone while every
\* vertex, group and port the fragment contained, or every port the vertex
\* owned, when the call began is still in the store, with the edges between
\* ports as they were.
Thm_C11_PlainDeleteRemovesOnlyTarget == [][OnlyTargetGoes]_vars

Wit_C11_FragmentGoneContentsKept ==
    /\ at = "idle" /\ outcome = "done" /\ call.op = "Fragment.delete" /\ ~call.cascade
    /\ <<"Fragment", call.target>> \notin Live(db)
    /\ {<<"Vertex", 1>>, <<"Group", 1>>} \subseteq owned
    /\ \E p \in 1..NumPorts : <<"Port", p>> \in owned
    /\ owned \subseteq Live(db)

====
